---------------------------- MODULE Spec2Model ----------------------------
(***************************************************************************)
(* keras_cv.layers.preprocessing.RandomResizedCrop: construction of the    *)
(* layer, sampling of the crop rectangle and the two call paths.           *)
(*                                                                         *)
(* Numbers are binary floating-point values of a scaled-down format:       *)
(* Precision significand bits on a grid of 2^-FracBits (float32 has 24     *)
(* significand bits).  A value v is held as the integer v * 2^FracBits.    *)
(* Every arithmetic operation rounds to nearest, ties to even, as the      *)
(* float32 kernels behind tf.sqrt, "/", "*", "+" and "-" do.               *)
(***************************************************************************)
EXTENDS Integers, Sequences, FiniteSets

\* ------------------------------------------------------------------ bounds
FracBits == 7
Precision == 4
MaxCalls == 2

\* ------------------------------------------------------- floating point
RECURSIVE Pow2(_)
Pow2(n) == IF n <= 0 THEN 1 ELSE 2 * Pow2(n - 1)

RECURSIVE BitLen(_)
BitLen(n) == IF n <= 0 THEN 0 ELSE 1 + BitLen(n \div 2)

Min(a, b) == IF a <= b THEN a ELSE b
Max(a, b) == IF a >= b THEN a ELSE b
Abs(a) == IF a < 0 THEN -a ELSE a

One == Pow2(FracBits)

\* spacing of the representable values around n (n >= 0)
Ulp(n) == Pow2(Max(0, BitLen(n) - Precision))

\* num/den (num >= 0, den > 0) rounded to the nearest representable value,
\* ties to the even significand
RoundPos(num, den) ==
    LET q  == num \div den
        u  == Ulp(q)
        lo == (q \div u) * u
        hi == lo + u
    IN  IF 2 * num < (lo + hi) * den THEN lo
        ELSE IF 2 * num > (lo + hi) * den THEN hi
        ELSE IF (lo \div u) % 2 = 0 THEN lo ELSE hi

Round(num, den) == IF num >= 0 THEN RoundPos(num, den) ELSE -RoundPos(-num, den)

FAdd(a, b) == Round(a + b, 1)
FSub(a, b) == Round(a - b, 1)
FMul(a, b) == Round(a * b, One)
FDiv(a, b) == Round(a * One, b)

\* largest s with s*s <= x
RECURSIVE ISqrt(_)
ISqrt(x) == IF x < 2 THEN x
            ELSE LET s == 2 * ISqrt(x \div 4)
                 IN  IF (s + 1) * (s + 1) <= x THEN s + 1 ELSE s

\* sqrt(a) rounded to nearest: the candidates are the two representable values
\* around the root, the choice compares the root with their midpoint
FSqrt(a) ==
    LET x  == a * One
        s  == ISqrt(x)
        u  == Ulp(s)
        lo == (s \div u) * u
        hi == lo + u
    IN  IF 4 * x < (lo + hi) * (lo + hi) THEN lo
        ELSE IF 4 * x > (lo + hi) * (lo + hi) THEN hi
        ELSE IF (lo \div u) % 2 = 0 THEN lo ELSE hi

\* tf.clip_by_value(t, lo, hi) = minimum(maximum(t, lo), hi)
clip_by_value(t, lo, hi) == Min(Max(t, lo), hi)


\* ------------------------------------------------------------ arguments
Layers == {"a", "b"}
None == "None"

\* a value given for area_factor / aspect_ratio_factor.  kind "float": the
\* number lo; "tuple": (lo, hi); "sampler": a core.ConstantFactorSampler(lo);
\* "str": a string; "None": None
Arg(kind, lo, hi) == [kind |-> kind, lo |-> lo, hi |-> hi]
NoneArg == Arg("None", 0, 0)

\* Python truth value of an argument: None, 0.0 and "" are false; a 2-tuple,
\* a non-zero number and any FactorSampler object are true
Truthy(arg) ==
    CASE arg.kind = "None"  -> FALSE
      [] arg.kind = "float" -> arg.lo # 0
      [] arg.kind = "str"   -> arg.lo # 0
      [] OTHER              -> TRUE

\* Python `arg == 0.0`
EqZero(arg) == arg.kind = "float" /\ arg.lo = 0

DefaultAspectRatioFactor == Arg("tuple", Round(3 * One, 4), Round(4 * One, 3))

\* a seed is the empty set (seed=None) or a set holding the seed's number
NoSeed == {}
SeedOf(seed) == CHOOSE n \in seed : TRUE

\* ------------------------------------------------------------- samplers
\* core.ConstantFactorSampler(value) / core.UniformFactorSampler(lo, hi, seed)
ConstantFactorSampler(v) == [kind |-> "constant", lo |-> v, hi |-> v, seed |-> NoSeed]
UniformFactorSampler(lo, hi, seed) == [kind |-> "uniform", lo |-> lo, hi |-> hi, seed |-> seed]
NoSampler == [kind |-> "unset", lo |-> 0, hi |-> 0, seed |-> NoSeed]

\* the unit-interval values a uniform draw is scaled from, all in [0, 1)
UnitDraws == << 0, One \div 4, One \div 2, (3 * One) \div 4, (7 * One) \div 8 >>
UnitSet == {UnitDraws[i] : i \in 1..Len(UnitDraws)}

\* the k-th value of a generator seeded with seed: a fixed function of (seed, k)
StreamValue(seed, k) == UnitDraws[((SeedOf(seed) * 2 + k * 3) % Len(UnitDraws)) + 1]

\* u may be the k-th draw of a generator with this seed: any value when the
\* generator is unseeded, the stream's value when it is seeded
MayDraw(seed, k, u) == IF seed = NoSeed THEN u \in UnitSet ELSE u = StreamValue(seed, k)

\* tf.random.uniform((), minval, maxval): minval + u * (maxval - minval)
random_uniform(u, minval, maxval) == FAdd(minval, FMul(u, FSub(maxval, minval)))

\* FactorSampler.__call__: the value drawn with unit draw u
SamplerValue(f, u) == IF f.kind = "constant" THEN f.lo ELSE random_uniform(u, f.lo, f.hi)

\* preprocessing.parse_factor(param, min_value, max_value, param_name, seed)
ParseFactor(param, min_value, max_value, param_name, seed) ==
    IF param.kind = "sampler"
    THEN [error |-> None, names |-> {}, factor |-> ConstantFactorSampler(param.lo)]
    ELSE LET lo == IF param.kind = "float" THEN min_value ELSE param.lo
             hi == IF param.kind = "float" THEN param.lo ELSE param.hi
         IN  IF lo > hi \/ lo < min_value \/ hi > max_value
             THEN [error |-> "ValueError", names |-> {param_name}, factor |-> NoSampler]
             ELSE IF lo = hi
             THEN [error |-> None, names |-> {}, factor |-> ConstantFactorSampler(lo)]
             ELSE [error |-> None, names |-> {}, factor |-> UniformFactorSampler(lo, hi, seed)]


\* ---------------------------------------------------------- construction
Unbuilt ==
    [status |-> "none", error |-> None, names |-> {}, warnings |-> 0,
     given_area |-> NoneArg, given_aspect |-> NoneArg,
     target_size |-> <<0, 0>>, area_factor |-> NoSampler,
     aspect_ratio_factor |-> NoSampler, interpolation |-> None,
     seed |-> NoSeed, compute_dtype |-> None]

\* line 70: aspect_ratio_factor = aspect_ratio_factor or (3. / 4., 4. / 3.)
AspectRatioOrDefault(arg) == IF Truthy(arg) THEN arg ELSE DefaultAspectRatioFactor

\* lines 71-80: the isinstance chain.  bound says whether min_aspect_ratio and
\* max_aspect_ratio were assigned
AspectRatioCheckFloatAccepted(a) ==
    IF a.kind \in {"tuple", "float"}
    THEN [error |-> None, names |-> {}, bound |-> TRUE,
          min |-> Min(a.lo, a.hi), max |-> Max(a.lo, a.hi)]
    ELSE IF a.kind = "sampler"
    THEN [error |-> None, names |-> {}, bound |-> FALSE, min |-> 0, max |-> 0]
    ELSE [error |-> "ValueError", names |-> {"aspect_ratio", "aspect_ratio_factor"},
          bound |-> FALSE, min |-> 0, max |-> 0]

AspectRatioCheck(a) ==
    IF a.kind = "tuple"
    THEN [error |-> None, names |-> {}, bound |-> TRUE,
          min |-> Min(a.lo, a.hi), max |-> Max(a.lo, a.hi)]
    ELSE IF a.kind = "sampler"
    THEN [error |-> None, names |-> {}, bound |-> FALSE, min |-> 0, max |-> 0]
    ELSE [error |-> "ValueError", names |-> {"aspect_ratio", "aspect_ratio_factor"},
          bound |-> FALSE, min |-> 0, max |-> 0]

\* lines 87 and 93: the seed handed to parse_factor
SamplerSeedDropped(seed) == NoSeed

SamplerSeed(seed) == seed

\* lines 99-103: the number of warnings the constructor emits; aspect is the
\* local aspect_ratio_factor as reassigned at line 70
DegenerateWarnings(area, aspect) == IF EqZero(area) /\ EqZero(aspect) THEN 1 ELSE 0

Failed(area, aspect, error, names) ==
    [Unbuilt EXCEPT !.status = "failed", !.error = error, !.names = names,
                    !.given_area = area, !.given_aspect = aspect]

\* RandomResizedCrop.__init__: the layer, or the failure the constructor raises
__init__(target_size, area_factor, aspect_ratio_factor, interpolation, seed, dtype) ==
    LET aspect == AspectRatioOrDefault(aspect_ratio_factor)
        chk    == AspectRatioCheck(aspect)
        pa     == ParseFactor(aspect, chk.min, chk.max, "aspect_ratio_factor",
                              SamplerSeed(seed))
        pr     == ParseFactor(area_factor, 0, One, "area_factor", SamplerSeed(seed))
    IN  IF chk.error # None
        THEN Failed(area_factor, aspect_ratio_factor, chk.error, chk.names)
        ELSE IF ~chk.bound
        THEN Failed(area_factor, aspect_ratio_factor, "UnboundLocalError",
                    {"min_aspect_ratio"})
        ELSE IF pa.error # None
        THEN Failed(area_factor, aspect_ratio_factor, pa.error, pa.names)
        ELSE IF pr.error # None
        THEN Failed(area_factor, aspect_ratio_factor, pr.error, pr.names)
        ELSE [status |-> "built", error |-> None, names |-> {},
              warnings |-> DegenerateWarnings(area_factor, aspect),
              given_area |-> area_factor, given_aspect |-> aspect_ratio_factor,
              target_size |-> target_size, area_factor |-> pr.factor,
              aspect_ratio_factor |-> pa.factor, interpolation |-> interpolation,
              seed |-> seed, compute_dtype |-> dtype]

\* ------------------------------------------------- get_random_transformation
\* lines 113-115
new_height_unclipped(area_factor, aspect_ratio) == FSqrt(FDiv(area_factor, aspect_ratio))

new_height_swapped(area_factor, aspect_ratio) ==
    clip_by_value(FSqrt(FMul(area_factor, aspect_ratio)), 0, One)

new_height(area_factor, aspect_ratio) ==
    clip_by_value(FSqrt(FDiv(area_factor, aspect_ratio)), 0, One)

\* lines 116-117
new_width(area_factor, aspect_ratio) ==
    clip_by_value(FSqrt(FMul(area_factor, aspect_ratio)), 0, One)

\* lines 121 and 128: minval=tf.minimum(0.0, 1.0 - new_size)
offset_minval(new_size) == Min(0, FSub(One, new_size))

\* lines 122 and 129: maxval=tf.maximum(0.0, 1.0 - new_size)
offset_maxval_whole(new_size) == One

offset_maxval(new_size) == Max(0, FSub(One, new_size))

\* lines 110-138 for the unit draws ua (area), ur (aspect ratio), uh and uw
\* (offsets): the rectangle with the intermediate values it was made from
get_random_transformation(self, ua, ur, uh, uw) ==
    LET area_factor   == SamplerValue(self.area_factor, ua)
        aspect_ratio  == SamplerValue(self.aspect_ratio_factor, ur)
        h             == new_height(area_factor, aspect_ratio)
        w             == new_width(area_factor, aspect_ratio)
        height_offset == random_uniform(uh, offset_minval(h), offset_maxval(h))
        width_offset  == random_uniform(uw, offset_minval(w), offset_maxval(w))
    IN  [area |-> area_factor, aspect |-> aspect_ratio, h |-> h, w |-> w,
         hmin |-> offset_minval(h), hmax |-> offset_maxval(h),
         wmin |-> offset_minval(w), wmax |-> offset_maxval(w),
         y1 |-> height_offset, x1 |-> width_offset,
         y2 |-> FAdd(height_offset, h), x2 |-> FAdd(width_offset, w)]

\* --------------------------------------------------------------- resizing
NoOutput == [path |-> None, size |-> <<0, 0>>, dtype |-> None, method |-> None,
             batched |-> FALSE]

\* lines 153-167: tf.image.crop_and_resize(image, boxes, [0], self.target_size)
\* is called without `method`, so it resamples bilinearly, and yields float32
augment_image(self, image, transformation) ==
    [path |-> "crop_and_resize", size |-> self.target_size, dtype |-> "float32",
     method |-> "bilinear", batched |-> image.batched]

\* lines 169-173: smart_resize(image, self.target_size), cast to compute_dtype
_resize(self, image) ==
    [path |-> "smart_resize", size |-> self.target_size,
     dtype |-> self.compute_dtype, method |-> "bilinear", batched |-> image.batched]


\* lines 140-151, the training branch: BaseImageAugmentationLayer.call draws one
\* transformation and hands it to augment_image
BaseImageAugmentationLayer_call(self, inputs, transformation) ==
    [sampler_calls |-> 1, output |-> augment_image(self, inputs, transformation)]

call_inverted(self, inputs, training, transformation) ==
    IF ~training
    THEN BaseImageAugmentationLayer_call(self, inputs, transformation)
    ELSE [sampler_calls |-> 0, output |-> _resize(self, inputs)]

\* lines 140-151
call(self, inputs, training, transformation) ==
    IF training
    THEN BaseImageAugmentationLayer_call(self, inputs, transformation)
    ELSE [sampler_calls |-> 0, output |-> _resize(self, inputs)]

\* ------------------------------------------------------------------ inputs
\* Area factors lie in [0, 1] and aspect ratios are positive: 0/0 and negative
\* ratios, whose square root is NaN, are not among the inputs.
Half == One \div 2
Quarter == One \div 4

TargetSizes == {<<2, 2>>, <<3, 5>>}
Interpolations == {"bilinear", "nearest"}
DTypes == {"float32", "float16"}
Seeds == {{1}, {2}}
Images == {[size |-> <<4, 4>>, batched |-> FALSE], [size |-> <<6, 3>>, batched |-> TRUE]}

\* area_factor values parse_factor accepts under max_value=1.0
ValidAreaArgs ==
    {Arg("tuple", Quarter, One), Arg("tuple", One, One), Arg("tuple", Half, Half),
     Arg("float", 0, 0), Arg("float", One, One), Arg("sampler", Quarter, Quarter)}

AreaArgs == ValidAreaArgs \cup {Arg("tuple", Half, 2 * One)}

AspectArgs ==
    {NoneArg, Arg("float", 0, 0), Arg("float", One, One), DefaultAspectRatioFactor,
     Arg("tuple", One, One), Arg("tuple", Half, 2 * One), Arg("sampler", One, One),
     Arg("str", 3, 3)}

\* ------------------------------------------------------------------- state
VARIABLES
    layer,    \* layer[l]: the object RandomResizedCrop(...) made, or its failure
    rng,      \* rng[l]: the draws made so far from each generator
    rects,    \* rects[l]: what get_random_transformation returned, in order
    calls,    \* calls[l]: how often each path and primitive ran
    output    \* output[l]: what the last call returned

vars == <<layer, rng, rects, calls, output>>

NoCalls == [training |-> 0, inference |-> 0, sampler |-> 0, crop_and_resize |-> 0,
            smart_resize |-> 0]

Init ==
    /\ layer = [l \in Layers |-> Unbuilt]
    /\ rng = [l \in Layers |-> [area |-> 0, aspect |-> 0, generator |-> 0]]
    /\ rects = [l \in Layers |-> << >>]
    /\ calls = [l \in Layers |-> NoCalls]
    /\ output = [l \in Layers |-> NoOutput]

\* l = RandomResizedCrop(target_size, area_factor, aspect_ratio_factor,
\*                       interpolation, seed, dtype=dtype)
Construct(l, target_size, area_factor, aspect_ratio_factor, interpolation, seed, dtype) ==
    /\ layer[l].status = "none"
    /\ layer' = [layer EXCEPT ![l] = __init__(target_size, area_factor,
                                   aspect_ratio_factor, interpolation, seed, dtype)]
    /\ UNCHANGED <<rng, rects, calls, output>>

Drawn(f) == IF f.kind = "uniform" THEN 1 ELSE 0

\* the unit values the k-th draw of a generator can take; no draw is made
\* (and 0 stands for the unused value) unless drawn
DrawSet(seed, k, drawn) ==
    IF ~drawn THEN {0} ELSE {u \in UnitSet : MayDraw(seed, k, u)}

\* l(inputs, training=training)
Call(l, inputs, training) ==
    LET self    == layer[l]
        sampled == call(self, inputs, training, << >>).sampler_calls = 1
    IN  /\ self.status = "built"
        /\ calls[l].training + calls[l].inference < MaxCalls
        /\ \E ua \in DrawSet(self.area_factor.seed, rng[l].area,
                             sampled /\ Drawn(self.area_factor) = 1),
              ur \in DrawSet(self.aspect_ratio_factor.seed, rng[l].aspect,
                             sampled /\ Drawn(self.aspect_ratio_factor) = 1),
              uh \in DrawSet(self.seed, rng[l].generator, sampled),
              uw \in DrawSet(self.seed, rng[l].generator + 1, sampled) :
            LET t   == get_random_transformation(self, ua, ur, uh, uw)
                res == call(self, inputs, training, t)
            IN  /\ IF sampled
                   THEN /\ rng' = [rng EXCEPT ![l] =
                              [area |-> @.area + Drawn(self.area_factor),
                               aspect |-> @.aspect + Drawn(self.aspect_ratio_factor),
                               generator |-> @.generator + 2]]
                        /\ rects' = [rects EXCEPT ![l] = Append(@, t)]
                   ELSE UNCHANGED <<rng, rects>>
                /\ calls' = [calls EXCEPT ![l] =
                      [training |-> @.training + (IF training THEN 1 ELSE 0),
                       inference |-> @.inference + (IF training THEN 0 ELSE 1),
                       sampler |-> @.sampler + res.sampler_calls,
                       crop_and_resize |-> @.crop_and_resize +
                           (IF res.output.path = "crop_and_resize" THEN 1 ELSE 0),
                       smart_resize |-> @.smart_resize +
                           (IF res.output.path = "smart_resize" THEN 1 ELSE 0)]]
                /\ output' = [output EXCEPT ![l] = res.output]
        /\ UNCHANGED layer

\* one layer, built with a seed, then called in either mode
Next ==
    \E l \in {"a"} :
        \/ \E ts \in TargetSizes, ar \in AreaArgs, asp \in AspectArgs,
              ip \in Interpolations, sd \in Seeds, dt \in DTypes :
                Construct(l, ts, ar, asp, ip, sd, dt)
        \/ \E im \in Images, tr \in BOOLEAN : Call(l, im, tr)

Spec == Init /\ [][Next]_vars

\* one layer built without a seed, so that every draw can take every value,
\* and its first get_random_transformation
Sample(l) == rects[l] = << >> /\ \E im \in Images : Call(l, im, TRUE)

NextSample ==
    \E l \in {"a"} :
        \/ \E ar \in AreaArgs, asp \in AspectArgs :
                Construct(l, <<2, 2>>, ar, asp, "bilinear", NoSeed, "float32")
        \/ Sample(l)

SpecSample == Init /\ [][NextSample]_vars

\* two layers, each built with a seed and called on its own
TwinAreaArgs == {Arg("tuple", Quarter, One), Arg("float", One, One)}
TwinAspectArgs == {DefaultAspectRatioFactor, Arg("tuple", Half, 2 * One)}

NextTwin ==
    \E l \in Layers :
        \/ \E ar \in TwinAreaArgs, asp \in TwinAspectArgs, sd \in Seeds :
                Construct(l, <<2, 2>>, ar, asp, "bilinear", sd, "float32")
        \/ \E tr \in BOOLEAN : Call(l, [size |-> <<4, 4>>, batched |-> FALSE], tr)

SpecTwin == Init /\ [][NextTwin]_vars

\* ------------------------------------------------------------------ claims
Built(l) == layer[l].status = "built"
Attempted(l) == layer[l].status # "none"

\* every rectangle get_random_transformation has returned
Returned == UNION {{rects[l][i] : i \in 1..Len(rects[l])} : l \in Layers}

HeightOf(r) == clip_by_value(FSqrt(FDiv(r.area, r.aspect)), 0, One)
WidthOf(r) == clip_by_value(FSqrt(FMul(r.area, r.aspect)), 0, One)
InUnit(v) == 0 <= v /\ v <= One

\* C1 as stated: every returned rectangle has h and w as defined, both in
\* [0, 1], and y2 - y1 = h and x2 - x1 = w exactly (the difference taken
\* exactly or as a rounded subtraction)
C1_ExactExtent ==
    \A r \in Returned :
        /\ r.h = HeightOf(r) /\ r.w = WidthOf(r)
        /\ InUnit(r.h) /\ InUnit(r.w)
        /\ (r.y2 - r.y1 = r.h \/ FSub(r.y2, r.y1) = r.h)
        /\ (r.x2 - r.x1 = r.w \/ FSub(r.x2, r.x1) = r.w)

\* C1 amended: every returned rectangle has h and w as defined, both in
\* [0, 1]; y2 and x2 are the rounded sums y1 + h and x1 + w, so y2 - y1 and
\* x2 - x1 differ from h and w by at most half a unit in the last place of
\* y2 and x2
C1_RoundedExtent ==
    \A r \in Returned :
        /\ r.h = HeightOf(r) /\ r.w = WidthOf(r)
        /\ InUnit(r.h) /\ InUnit(r.w)
        /\ 2 * Abs((r.y2 - r.y1) - r.h) <= Ulp(r.y2)
        /\ 2 * Abs((r.x2 - r.x1) - r.w) <= Ulp(r.x2)

\* a rectangle whose height y2 - y1 is not h: the sum y1 + h was rounded
C1_Witness ==
    \E r \in Returned :
        /\ r.y1 > 0 /\ r.y2 - r.y1 # r.h /\ FSub(r.y2, r.y1) # r.h
        /\ r.h = HeightOf(r) /\ r.h < One

FixedAt(f, v) == f.kind = "constant" /\ f.lo = v

\* C2: a layer whose area factor and aspect ratio factor are both fixed at
\* 1.0 only ever returns h = w = 1 and the full image (0, 0, 1, 1)
C2_FullImage ==
    \A l \in Layers :
        Built(l) /\ FixedAt(layer[l].area_factor, One)
                 /\ FixedAt(layer[l].aspect_ratio_factor, One)
        => \A i \in 1..Len(rects[l]) :
              LET r == rects[l][i]
              IN  /\ r.h = One /\ r.w = One
                  /\ <<r.y1, r.x1, r.y2, r.x2>> = <<0, 0, One, One>>

C2_Witness ==
    \E l \in Layers :
        /\ Built(l) /\ FixedAt(layer[l].area_factor, One)
        /\ FixedAt(layer[l].aspect_ratio_factor, One)
        /\ layer[l].seed = NoSeed
        /\ Len(rects[l]) >= 1

\* C3 as stated: construction succeeds whenever aspect_ratio_factor is a
\* tuple of two floats, a single float or a FactorSampler (area_factor being
\* valid)
C3_DocumentedFormsConstruct ==
    \A l \in Layers :
        /\ Attempted(l)
        /\ layer[l].given_area \in ValidAreaArgs
        /\ layer[l].given_aspect.kind \in {"tuple", "float", "sampler"}
        => Built(l)

RaisesNamingAspectRatio(l) ==
    /\ layer[l].status = "failed"
    /\ layer[l].error = "ValueError"
    /\ "aspect_ratio_factor" \in layer[l].names

C5_DegenerateWarnsOnce ==
    \A l \in Layers :
        Built(l) /\ EqZero(layer[l].given_area) /\ EqZero(layer[l].given_aspect)
        => layer[l].warnings = 1

\* C6: a call in non-training mode runs smart_resize once and neither the
\* sampler nor crop_and_resize, and returns target_size, batched or not; the
\* sampler runs only in a training-mode call
C6_InferenceFastPath ==
    [][\A l \in Layers :
          /\ calls'[l].inference # calls[l].inference
             => /\ calls'[l].sampler = calls[l].sampler
                /\ calls'[l].crop_and_resize = calls[l].crop_and_resize
                /\ calls'[l].smart_resize = calls[l].smart_resize + 1
                /\ rects'[l] = rects[l]
                /\ rng'[l] = rng[l]
                /\ output'[l].path = "smart_resize"
                /\ output'[l].size = layer[l].target_size
          /\ calls'[l].sampler # calls[l].sampler
             => calls'[l].training = calls[l].training + 1]_vars

C6_Witness ==
    \E l \in Layers :
        /\ calls[l].inference >= 1 /\ calls[l].training >= 1
        /\ calls[l].sampler = calls[l].training
        /\ output[l].path = "smart_resize" /\ output[l].batched
        /\ output[l].size = layer[l].target_size

\* C7 as stated: whatever a call returns has the layer's compute dtype
C7_OutputDtype ==
    \A l \in Layers :
        output[l].path # None => output[l].dtype = layer[l].compute_dtype

\* C8: two layers built with the same configuration and the same seed return
\* the same rectangles, call for call
C8_SameSeedSameRectangles ==
    \A k, l \in Layers :
        Built(k) /\ Built(l) /\ layer[k] = layer[l] /\ layer[k].seed # NoSeed
        => \A i \in 1..Min(Len(rects[k]), Len(rects[l])) : rects[k][i] = rects[l][i]

C8_Witness ==
    /\ Built("a") /\ layer["a"] = layer["b"] /\ layer["a"].seed # NoSeed
    /\ layer["a"].area_factor.kind = "uniform"
    /\ Len(rects["a"]) >= 2 /\ Len(rects["b"]) >= 2
    /\ rects["a"][1] # rects["a"][2]
    /\ rects["a"] = rects["b"]

\* C9 as stated: the training path resamples with the configured interpolation
C9_ConfiguredInterpolation ==
    \A l \in Layers :
        output[l].path = "crop_and_resize" => output[l].method = layer[l].interpolation

\* C10: the offset ranges are [0, 1 - h] and [0, 1 - w], and every returned
\* rectangle lies inside the image
C10_InsideImage ==
    \A r \in Returned :
        /\ r.hmin = 0 /\ r.hmax = FSub(One, r.h) /\ r.hmax >= 0
        /\ r.wmin = 0 /\ r.wmax = FSub(One, r.w) /\ r.wmax >= 0
        /\ 0 <= r.y1 /\ r.y1 <= r.y2 /\ r.y2 <= One
        /\ 0 <= r.x1 /\ r.x1 <= r.x2 /\ r.x2 <= One

\* a rectangle whose height was clipped to 1 and whose width left room for a
\* non-zero offset
C10_Witness ==
    \E r \in Returned :
        /\ FSqrt(FDiv(r.area, r.aspect)) > One /\ r.h = One
        /\ r.w < One /\ r.x1 > 0 /\ r.x2 <= One
=============================================================================
